---- MODULE Spec2Model ----
(***************************************************************************)
(* Model of conbench's comparison API (src/conbench/api/compare.py) and    *)
(* of the paginated listing of benchmark results                           *)
(* (src/conbench/api/results.py).                                          *)
(*                                                                         *)
(* Conventions.                                                            *)
(*  - A Python str is a sequence of one-character strings.                 *)
(*  - Python None is the record None; every Optional value is a record, so *)
(*    that it can be compared with None.                                   *)
(*  - A Python float is NaN, an infinity, or an exact rational n/d (d > 0).*)
(*    Arithmetic is exact: binary rounding is not modelled.                *)
(***************************************************************************)
EXTENDS Integers, Sequences, FiniteSets, TLC

VARIABLES
    sem,        \* _semaphore_compare_get._value
    pc,         \* per request-handling thread: its position in get()
    req,        \* per thread: the request it handles (endpoint, compare_ids)
    acquired,   \* per thread: the value _sem_acquire yielded
    wait,       \* per thread: ticks left of its sem.acquire(timeout=0.1)
    resp,       \* per thread: the response get() produced
    work,       \* per thread: log of the guarded steps _get() performed
    releases,   \* per thread: number of sem.release() calls of this request
    freed,      \* per thread: a release happened while it was waiting
    cmp,        \* comparator driver: last construction (inputs and outputs)
    rows,       \* the benchmark_result table, in insertion order
    listing,    \* last list_results request and its response
    trav,       \* a client's cursor traversal
    call        \* one call of an operation taken alone: its inputs and result

vars == <<sem, pc, req, acquired, wait, resp, work, releases, freed,
          cmp, rows, listing, trav, call>>

gateVars == <<sem, pc, req, acquired, wait, resp, work, releases, freed>>
listVars == <<rows, listing, trav>>

----------------------------------------------------------------------------
(* Bounds of the model *)

NumWorkers == 2      \* request-handling threads
TimeoutTicks == 1    \* clock ticks that make up the 0.1 s acquire timeout
MaxVal == 2          \* single-value summaries range over -MaxVal..MaxVal
MaxZ == 1            \* z-scores range over -MaxZ..MaxZ
MaxThreshold == 1    \* supplied thresholds range over -MaxThreshold..MaxThreshold
MaxRows == 3         \* rows ever inserted into the benchmark_result table
MaxJoin == 3         \* results on each side of a join
MaxTokenLen == 9     \* characters of a compare_ids path segment
MaxAppends == 2      \* results posted while a traversal is under way
MaxDeletes == 1      \* results deleted while a traversal is under way

----------------------------------------------------------------------------
(* Python values *)

None == [k |-> "None"]

NaN == [k |-> "nan"]
PosInf == [k |-> "inf", s |-> 1]
NegInf == [k |-> "inf", s |-> -1]
Rat(n, d) == [k |-> "float", n |-> n, d |-> d]
FNum(n) == Rat(n, 1)

IsNan(x) == x.k = "nan"

FNeg(x) ==
    CASE x.k = "nan" -> NaN
      [] x.k = "inf" -> [k |-> "inf", s |-> -x.s]
      [] OTHER -> Rat(-x.n, x.d)

FAbs(x) ==
    CASE x.k = "nan" -> NaN
      [] x.k = "inf" -> PosInf
      [] OTHER -> Rat(IF x.n < 0 THEN -x.n ELSE x.n, x.d)

\* x - y, x and y finite or NaN
FSub(x, y) ==
    IF IsNan(x) \/ IsNan(y) THEN NaN
    ELSE Rat(x.n * y.d - y.n * x.d, x.d * y.d)

\* x / y, x and y finite or NaN, y # 0
FDiv(x, y) ==
    IF IsNan(x) \/ IsNan(y) THEN NaN
    ELSE IF y.n < 0 THEN Rat(-(x.n * y.d), x.d * (-y.n))
    ELSE Rat(x.n * y.d, x.d * y.n)

\* x * m for an integer m
FScale(x, m) ==
    CASE x.k = "nan" -> NaN
      [] x.k = "inf" -> IF m = 0 THEN NaN
                        ELSE [k |-> "inf", s |-> IF m < 0 THEN -x.s ELSE x.s]
      [] OTHER -> Rat(x.n * m, x.d)

\* Python's x == 0
FIsZero(x) == x.k = "float" /\ x.n = 0

\* Python's x > y: false as soon as one side is NaN
FGt(x, y) ==
    CASE IsNan(x) \/ IsNan(y) -> FALSE
      [] x.k = "inf" /\ y.k = "inf" -> x.s > y.s
      [] x.k = "inf" -> x.s > 0
      [] y.k = "inf" -> y.s < 0
      [] OTHER -> x.n * y.d > y.n * x.d

\* Python's x == y on floats
FEq(x, y) ==
    CASE IsNan(x) \/ IsNan(y) -> FALSE
      [] x.k = "inf" \/ y.k = "inf" -> x = y
      [] OTHER -> x.n * y.d = y.n * x.d

Pow10(e) == IF e = 0 THEN 1 ELSE IF e = 1 THEN 10 ELSE IF e = 2 THEN 100 ELSE 1000

\* conbench.numstr.numstr(value, sigfigs=4) read back by float(): the finite
\* value rounded to four significant figures.  Magnitudes are below 10000
\* here, and not below 1 unless zero, so the value keeps 0 to 3 decimals.
numstr(value) ==
    IF value.k # "float" \/ value.n = 0 THEN value
    ELSE LET a == IF value.n < 0 THEN -value.n ELSE value.n
             e == CHOOSE x \in 0..3 :
                      /\ a * Pow10(x) >= 1000 * value.d \/ x = 3
                      /\ x > 0 => a * Pow10(x - 1) < 1000 * value.d
             m == (2 * a * Pow10(e) + value.d) \div (2 * value.d)
         IN Rat(IF value.n < 0 THEN -m ELSE m, Pow10(e))

Bool(b) == [k |-> "bool", b |-> b]
Str(s) == [k |-> "str", s |-> s]
Unit(u) == [k |-> "unit", u |-> u]

\* Python truthiness of an Optional[bool]
Truthy(x) == x # None /\ x.b

----------------------------------------------------------------------------
(* compare.py: module constants *)

DEFAULT_PAIRWISE_PERCENT_THRESHOLD == FNum(5)
DEFAULT_Z_SCORE_THRESHOLD == FNum(5)

CapacityOffByOne == 1 + 1

\* threading.BoundedSemaphore(1)
Capacity == 1

\* _round: None for NaN, else the value at four significant figures
round(value) == IF IsNan(value) THEN None ELSE numstr(value)

----------------------------------------------------------------------------
(* compare.py: _parse_two_ids_or_abort *)

Sep == <<".", ".", ".">>

\* f.abort(code, description): the exception that ends the request
Abort(code, description) == [ok |-> FALSE, status |-> code, description |-> description]

\* positions at which "..." occurs in s
SepPositions(s) ==
    {i \in 1..Len(s) : i + 2 <= Len(s) /\ SubSeq(s, i, i + 2) = Sep}

\* "..." in s
ContainsSep(s) == SepPositions(s) # {}

SplitLast(s) ==
    LET i == CHOOSE p \in SepPositions(s) : \A q \in SepPositions(s) : p >= q
    IN <<SubSeq(s, 1, i - 1), SubSeq(s, i + 3, Len(s))>>

\* s.split("...", 1) for a string that contains "..."
Split1(s) ==
    LET i == CHOOSE p \in SepPositions(s) : \A q \in SepPositions(s) : p <= q
    IN <<SubSeq(s, 1, i - 1), SubSeq(s, i + 3, Len(s))>>

parse_without_pattern_check(compare_ids) ==
    IF ~ContainsSep(compare_ids)
    THEN [ok |-> TRUE, baseline_id |-> compare_ids, contender_id |-> compare_ids]
    ELSE LET parts == Split1(compare_ids)
         IN IF parts[1] = <<>> THEN Abort(404, "empty baseline ID")
            ELSE IF parts[2] = <<>> THEN Abort(404, "empty contender ID")
            ELSE [ok |-> TRUE, baseline_id |-> parts[1],
                  contender_id |-> parts[2]]

parse_unchecked_contender(compare_ids) ==
    IF ~ContainsSep(compare_ids)
    THEN Abort(404, "last URL path segment must be of pattern <id>...<id>")
    ELSE LET parts == Split1(compare_ids)
         IN IF parts[1] = <<>> THEN Abort(404, "empty baseline ID")
            ELSE [ok |-> TRUE, baseline_id |-> parts[1],
                  contender_id |-> parts[2]]

parse_two_ids_or_abort(compare_ids) ==
    IF ~ContainsSep(compare_ids)
    THEN Abort(404, "last URL path segment must be of pattern <id>...<id>")
    ELSE LET parts == Split1(compare_ids)
             baseline_id == parts[1]
             contender_id == parts[2]
         IN IF baseline_id = <<>> THEN Abort(404, "empty baseline ID")
            ELSE IF contender_id = <<>> THEN Abort(404, "empty contender ID")
            ELSE [ok |-> TRUE, baseline_id |-> baseline_id,
                  contender_id |-> contender_id]

----------------------------------------------------------------------------
(* compare.py: _get_threshold_args_from_request *)

\* A query argument is None (not given), Arg(x) (a text float() turns into x)
\* or NotAFloat (a text float() rejects with ValueError).
Arg(x) == [k |-> "arg", v |-> x]
NotAFloat == [k |-> "notafloat"]

get_threshold_args_from_request(threshold_arg, threshold_z_arg) ==
    IF threshold_arg = NotAFloat \/ threshold_z_arg = NotAFloat
    THEN [ok |-> FALSE, status |-> 500, description |-> "ValueError"]
    ELSE [ok |-> TRUE,
          threshold |-> IF threshold_arg = None THEN None ELSE threshold_arg.v,
          threshold_z |-> IF threshold_z_arg = None THEN None ELSE threshold_z_arg.v]

----------------------------------------------------------------------------
(* conbench.units, the unit-metadata lookup consumed by the comparator *)

Units == {"s", "i/s"}

less_is_better_of_unit(u) == u = "s"

\* BenchmarkResult.unitsymbol: the unit as a TUnit
unitsymbol(r) == r.unit

----------------------------------------------------------------------------
(* compare.py: BenchmarkResultComparator *)

ContenderFailureIgnored(contender) == FALSE

\* __init__: `if contender and contender.is_failed`
ContenderFailed(contender) == contender # None /\ contender.is_failed

\* __init__: `if baseline and baseline.is_failed`
BaselineFailed(baseline) == baseline # None /\ baseline.is_failed

\* __init__, up to and including self.do_comparison
DoComparison(baseline, contender) ==
    /\ baseline # None /\ contender # None
    /\ ~BaselineFailed(baseline)
    /\ ~ContenderFailed(contender)

ComparatorUnitsCheckedFirst(baseline, contender, threshold, threshold_z) ==
    LET do_comparison == DoComparison(baseline, contender)
        fields == [raised |-> "none",
                   do_comparison |-> do_comparison,
                   unit |-> None,
                   baseline |-> baseline,
                   contender |-> contender,
                   threshold |-> IF threshold # None THEN threshold
                                 ELSE DEFAULT_PAIRWISE_PERCENT_THRESHOLD,
                   threshold_z |-> IF threshold_z # None THEN threshold_z
                                   ELSE DEFAULT_Z_SCORE_THRESHOLD]
    IN IF baseline # None /\ contender # None
          /\ baseline.unit # contender.unit
       THEN [raised |-> "UnmatchingUnitsError"]
       ELSE IF ~do_comparison THEN fields
       ELSE [fields EXCEPT !.unit = unitsymbol(baseline)]

\* __init__: the comparator object, or the exception it raises
BenchmarkResultComparator(baseline, contender, threshold, threshold_z) ==
    LET do_comparison == DoComparison(baseline, contender)
        fields == [raised |-> "none",
                   do_comparison |-> do_comparison,
                   unit |-> None,
                   baseline |-> baseline,
                   contender |-> contender,
                   threshold |-> IF threshold # None THEN threshold
                                 ELSE DEFAULT_PAIRWISE_PERCENT_THRESHOLD,
                   threshold_z |-> IF threshold_z # None THEN threshold_z
                                   ELSE DEFAULT_Z_SCORE_THRESHOLD]
    IN IF ~do_comparison THEN fields
       ELSE IF baseline.unit = None \/ contender.unit = None
            THEN [raised |-> "AssertionError"]
       ELSE IF baseline.unit # contender.unit
            THEN [raised |-> "UnmatchingUnitsError"]
       ELSE [fields EXCEPT !.unit = unitsymbol(baseline)]

less_is_better(self) ==
    IF self.unit = None THEN None
    ELSE Bool(less_is_better_of_unit(self.unit.u))

RegressionNotStrict(value, threshold) ==
    FGt(FNeg(value), threshold) \/ FEq(FNeg(value), threshold)

\* regression_indicated = -value > threshold
RegressionIndicated(value, threshold) == FGt(FNeg(value), threshold)

ImprovementFromMagnitude(value, threshold) == FGt(FAbs(value), threshold)

\* improvement_indicated = value > threshold
ImprovementIndicated(value, threshold) == FGt(value, threshold)

ContenderIsZero(self) == FIsZero(self.contender.svs)

\* pairwise_analysis: `if self.baseline.svs == 0`
BaselineIsZero(self) == FIsZero(self.baseline.svs)

\* pairwise_analysis: the local percent_change, for a non-zero baseline
PercentChange(self) ==
    LET relative_change ==
            FDiv(FSub(self.contender.svs, self.baseline.svs),
                 FAbs(self.baseline.svs))
        signed == IF Truthy(less_is_better(self))
                  THEN FScale(relative_change, -1)
                  ELSE relative_change
    IN FScale(signed, 100)

pairwise_analysis(self) ==
    IF ~self.do_comparison THEN None
    ELSE IF BaselineIsZero(self) THEN None
    ELSE LET percent_change == PercentChange(self)
         IN [k |-> "dict",
             percent_change |-> round(percent_change),
             percent_threshold |-> self.threshold,
             regression_indicated |->
                 RegressionIndicated(percent_change, self.threshold),
             improvement_indicated |->
                 ImprovementIndicated(percent_change, self.threshold)]

lookback_without_nan_check(self) ==
    IF ~self.do_comparison THEN None
    ELSE IF self.contender.z_score = None THEN None
    ELSE [k |-> "dict",
          z_threshold |-> self.threshold_z,
          z_score |-> round(self.contender.z_score),
          regression_indicated |->
              RegressionIndicated(self.contender.z_score, self.threshold_z),
          improvement_indicated |->
              ImprovementIndicated(self.contender.z_score, self.threshold_z)]

lookback_z_score_analysis(self) ==
    IF ~self.do_comparison THEN None
    ELSE IF self.contender.z_score = None \/ IsNan(self.contender.z_score)
    THEN None
    ELSE [k |-> "dict",
          z_threshold |-> self.threshold_z,
          z_score |-> round(self.contender.z_score),
          regression_indicated |->
              RegressionIndicated(self.contender.z_score, self.threshold_z),
          improvement_indicated |->
              ImprovementIndicated(self.contender.z_score, self.threshold_z)]

result_info(result) ==
    IF result = None THEN None
    ELSE [k |-> "dict",
          benchmark_result_id |-> result.id,
          single_value_summary |->
              IF IsNan(result.svs) THEN None ELSE round(result.svs),
          run_id |-> result.run_id]

dict_for_api_json(self) ==
    [unit |-> self.unit,
     less_is_better |-> less_is_better(self),
     baseline |-> result_info(self.baseline),
     contender |-> result_info(self.contender),
     analysis |-> [pairwise |-> pairwise_analysis(self),
                   lookback_z_score |-> lookback_z_score_analysis(self)]]

----------------------------------------------------------------------------
(* The BenchmarkResult entity, as far as compare.py and results.py read it *)

Commit == [k |-> "commit"]

\* hist_z is what the z-score annotator (set_z_scores) finds for the result;
\* z_score is the attribute the request attaches (absent until then).
BenchmarkResult(id, run_id, timestamp, run_reason, unit, is_failed, svs, hist_z, fing, commit) ==
    [id |-> id, run_id |-> run_id, timestamp |-> timestamp,
     run_reason |-> run_reason, unit |-> unit, is_failed |-> is_failed,
     svs |-> svs, hist_z |-> hist_z, history_fingerprint |-> fing,
     commit |-> commit, z_score |-> None]

SvsValues == {FNum(v) : v \in -MaxVal..MaxVal} \cup {NaN}
ZValues == {FNum(v) : v \in -MaxZ..MaxZ} \cup {NaN, None}
ThresholdArgs ==
    {Arg(FNum(v)) : v \in -MaxThreshold..MaxThreshold}
        \cup {Arg(FNum(50)), Arg(FNum(-50))}
        \cup {Arg(NaN), Arg(PosInf), Arg(NegInf), None, NotAFloat}

\* Results as the comparator can be handed them.  A result that is not
\* failed carries a unit; a failed one has no summary value.
AugmentedResults(id) ==
    {[BenchmarkResult(id, <<"r">>, 1, "commit", Unit(u), FALSE, v, None,
                      "f1", Commit) EXCEPT !.z_score = z] :
        u \in Units, v \in SvsValues, z \in ZValues}
    \cup
    {BenchmarkResult(id, <<"r">>, 1, "commit", u, TRUE, NaN, None, "f1",
                     Commit) :
        u \in {Unit(x) : x \in Units} \cup {None}}

BaselineInputs ==
    {r \in AugmentedResults(<<"0", "1">>) : r.z_score = None} \cup {None}
ContenderInputs == AugmentedResults(<<"0", "2">>) \cup {None}

----------------------------------------------------------------------------
(* Comparator driver: constructs one comparison from request arguments and *)
(* reads every property _dict_for_api_json reads.                          *)

\* no comparison requested
CmpInit == cmp = None

CmpInputs ==
    [baseline : BaselineInputs, contender : ContenderInputs,
     threshold_arg : ThresholdArgs, threshold_z_arg : ThresholdArgs]

Construct(in) ==
    LET args == get_threshold_args_from_request(in.threshold_arg,
                                                in.threshold_z_arg)
        self == BenchmarkResultComparator(in.baseline, in.contender,
                                          args.threshold, args.threshold_z)
    IN IF ~args.ok THEN [in |-> in, raised |-> "ValueError"]
       ELSE IF self.raised # "none" THEN [in |-> in, raised |-> self.raised]
       ELSE [in |-> in, raised |-> "none",
             do_comparison |-> self.do_comparison,
             threshold |-> self.threshold,
             threshold_z |-> self.threshold_z,
             json |-> dict_for_api_json(self)]

\* a request's pair of results and threshold arguments are at hand
CmpPending == cmp # None /\ cmp.raised = "pending"

Compare ==
    /\ CmpPending
    /\ cmp' = Construct(cmp.in)
    /\ UNCHANGED <<gateVars, listVars, call>>

----------------------------------------------------------------------------
(* Store collaborators of the compare endpoints *)

\* BenchmarkResult.get(id)
BenchmarkResult_get(table, id) ==
    LET hits == {i \in 1..Len(table) : table[i].id = id}
    IN IF hits = {} THEN None ELSE table[CHOOSE i \in hits : TRUE]

\* select(BenchmarkResult).where(BenchmarkResult.run_id == run_id)
ResultsOfRun(table, run_id) == SelectSeq(table, LAMBDA r : r.run_id = run_id)

\* entities.history.set_z_scores: attaches to every contender the z-score
\* found for it along the baseline commit's history
set_z_scores(contender_benchmark_results, baseline_commit) ==
    [i \in 1..Len(contender_benchmark_results) |->
        [contender_benchmark_results[i] EXCEPT
            !.z_score = contender_benchmark_results[i].hist_z]]

\* the else branch: result.z_score = None for every contender
ClearZScores(contender_results) ==
    [i \in 1..Len(contender_results) |->
        [contender_results[i] EXCEPT !.z_score = None]]

\* where a collaborator may fail during one request
Faults == {"none", "store_baseline", "annotator"}

\* a response body: an error description or a JSON document
ErrorBody(description) == [k |-> "error", description |-> description]
JsonBody(value) == [k |-> "json", value |-> value]

Response(status, log, body) ==
    [status |-> status, work |-> log,
     body |-> IF status = 200 THEN JsonBody(body) ELSE ErrorBody(body)]

----------------------------------------------------------------------------
(* compare.py: CompareBenchmarkResultsAPI._get *)

CompareBenchmarkResultsAPI_get(table, compare_ids, threshold_arg, threshold_z_arg, fault) ==
    LET ids == parse_two_ids_or_abort(compare_ids)
        args == get_threshold_args_from_request(threshold_arg, threshold_z_arg)
        baseline_result == BenchmarkResult_get(table, ids.baseline_id)
        contender_result == BenchmarkResult_get(table, ids.contender_id)
        baseline_commit == baseline_result.commit
        annotated ==
            IF baseline_commit # None
            THEN set_z_scores(<<contender_result>>, baseline_commit)[1]
            ELSE ClearZScores(<<contender_result>>)[1]
        comparator == BenchmarkResultComparator(baseline_result, annotated,
                                                args.threshold, args.threshold_z)
        fetched == <<"parse", "thresholds", "fetch_baseline", "fetch_contender">>
        annotation == IF baseline_commit # None THEN <<"annotate">> ELSE <<>>
    IN IF ~ids.ok THEN Response(404, <<"parse">>, ids.description)
       ELSE IF ~args.ok
            THEN Response(500, <<"parse", "thresholds">>, args.description)
       ELSE IF fault = "store_baseline"
            THEN Response(500, SubSeq(fetched, 1, 3), "store fault")
       ELSE IF baseline_result = None
            THEN Response(404, SubSeq(fetched, 1, 3), "no benchmark result found")
       ELSE IF fault = "store_contender"
            THEN Response(500, fetched, "store fault")
       ELSE IF contender_result = None
            THEN Response(404, fetched, "no benchmark result found")
       ELSE IF fault = "annotator" /\ baseline_commit # None
            THEN Response(500, fetched \o annotation, "annotator fault")
       ELSE IF comparator.raised = "UnmatchingUnitsError"
            THEN Response(400, fetched \o annotation \o <<"construct">>,
                          "Benchmark units do not match.")
       ELSE IF comparator.raised # "none"
            THEN Response(500, fetched \o annotation \o <<"construct">>,
                          comparator.raised)
       ELSE Response(200, fetched \o annotation \o <<"construct">>,
                     <<dict_for_api_json(comparator)>>)

----------------------------------------------------------------------------
(* compare.py: CompareRunsAPI *)

Fingerprints(results) == {results[i].history_fingerprint : i \in 1..Len(results)}

\* the orders in which a Python set of fingerprints may be iterated
IterationOrders(S) ==
    {o \in [1..Cardinality(S) -> S] : \A i, j \in 1..Cardinality(S) :
                                         i # j => o[i] # o[j]}

ByFing(results, fing) ==
    SelectSeq(results, LAMBDA r : r.history_fingerprint = fing)

OrEmpty(members) == members

\* results_by_fing[fing] or [None]
OrNone(members) == IF members = <<>> THEN <<None>> ELSE members

\* the two inner loops of _join_results for one fingerprint
PairsOfFing(baseline_members, contender_members) ==
    [k \in 1..(Len(baseline_members) * Len(contender_members)) |->
        <<baseline_members[((k - 1) \div Len(contender_members)) + 1],
          contender_members[((k - 1) % Len(contender_members)) + 1]>>]

RECURSIVE JoinOver(_, _, _)
JoinOver(baseline_results, contender_results, order) ==
    IF order = <<>> THEN <<>>
    ELSE PairsOfFing(OrNone(ByFing(baseline_results, Head(order))),
                     OrNone(ByFing(contender_results, Head(order))))
         \o JoinOver(baseline_results, contender_results, Tail(order))

\* _join_results, the set of fingerprints being iterated in the given order
join_results(baseline_results, contender_results, order) ==
    JoinOver(baseline_results, contender_results, order)

SkipsNoPair(raised) == FALSE

\* `except UnmatchingUnitsError: pass`
SkipsPair(raised) == raised = "UnmatchingUnitsError"

\* the loop building `comparators`: a pair whose construction raises
\* UnmatchingUnitsError is skipped; any other exception ends the loop
RECURSIVE Comparators(_, _, _)
Comparators(pairs, threshold, threshold_z) ==
    IF pairs = <<>> THEN [raised |-> "none", list |-> <<>>]
    ELSE LET c == BenchmarkResultComparator(Head(pairs)[1], Head(pairs)[2],
                                            threshold, threshold_z)
             rest == Comparators(Tail(pairs), threshold, threshold_z)
         IN IF SkipsPair(c.raised) THEN rest
            ELSE IF c.raised # "none" THEN [raised |-> c.raised, list |-> <<>>]
            ELSE IF rest.raised # "none" THEN rest
            ELSE [raised |-> "none", list |-> <<c>> \o rest.list]

CompareRunsAPI_get(table, compare_ids, threshold_arg, threshold_z_arg, fault, order) ==
    LET ids == parse_two_ids_or_abort(compare_ids)
        args == get_threshold_args_from_request(threshold_arg, threshold_z_arg)
        baseline_results == ResultsOfRun(table, ids.baseline_id)
        contender_results == ResultsOfRun(table, ids.contender_id)
        baseline_commit == baseline_results[1].commit
        annotated ==
            IF baseline_commit # None
            THEN set_z_scores(contender_results, baseline_commit)
            ELSE ClearZScores(contender_results)
        joined == join_results(baseline_results, annotated, order)
        built == Comparators(joined, args.threshold, args.threshold_z)
        fetched == <<"parse", "thresholds", "fetch_baseline", "fetch_contender">>
        annotation == IF baseline_commit # None THEN <<"annotate">> ELSE <<>>
    IN IF ~ids.ok THEN Response(404, <<"parse">>, ids.description)
       ELSE IF ~args.ok
            THEN Response(500, <<"parse", "thresholds">>, args.description)
       ELSE IF fault = "store_baseline"
            THEN Response(500, SubSeq(fetched, 1, 3), "store fault")
       ELSE IF baseline_results = <<>>
            THEN Response(404, SubSeq(fetched, 1, 3), "no benchmark results found")
       ELSE IF fault = "store_contender"
            THEN Response(500, fetched, "store fault")
       ELSE IF contender_results = <<>>
            THEN Response(404, fetched, "no benchmark results found")
       ELSE IF fault = "annotator" /\ baseline_commit # None
            THEN Response(500, fetched \o annotation, "annotator fault")
       ELSE IF built.raised # "none"
            THEN Response(500, fetched \o annotation \o <<"construct">>,
                          built.raised)
       ELSE Response(200, fetched \o annotation \o <<"construct">>,
                     [i \in 1..Len(built.list) |->
                         dict_for_api_json(built.list[i])])

\* the fingerprint orders _join_results may iterate in for this request
JoinOrders(table, compare_ids) ==
    LET ids == parse_two_ids_or_abort(compare_ids)
    IN IF ~ids.ok THEN {<<>>}
       ELSE IterationOrders(Fingerprints(ResultsOfRun(table, ids.baseline_id))
                \cup Fingerprints(ResultsOfRun(table, ids.contender_id)))

----------------------------------------------------------------------------
(* The admission gate and the request-handling threads *)

Threads == 1..NumWorkers

Endpoints == {"CompareBenchmarkResultsAPI", "CompareRunsAPI"}

Id(a, b) == <<a, b>>

\* A populated table the compare requests read.  Results 01 and 04 form run
\* 01, results 02 and 05 run 02, result 03 run 03; run 03 has no commit.
SampleRows ==
    << BenchmarkResult(Id("0", "1"), Id("0", "1"), 1, "commit", Unit("s"), FALSE,
                       FNum(2), None, "f1", Commit),
       BenchmarkResult(Id("0", "2"), Id("0", "2"), 1, "commit", Unit("s"), FALSE,
                       FNum(1), FNum(-1), "f1", Commit),
       BenchmarkResult(Id("0", "3"), Id("0", "3"), 1, "commit", Unit("i/s"), FALSE,
                       FNum(1), None, "f1", None),
       BenchmarkResult(Id("0", "4"), Id("0", "1"), 1, "commit", Unit("s"), FALSE,
                       FNum(0), None, "f2", Commit),
       BenchmarkResult(Id("0", "5"), Id("0", "2"), 1, "commit", None, TRUE,
                       NaN, None, "f1", Commit) >>

\* <id>...<id> path segments: two known ids of equal unit, two known ids of
\* differing units, no separator
Tokens ==
    { Id("0", "1") \o Sep \o Id("0", "2"),
      Id("0", "1") \o Sep \o Id("0", "3"),
      Id("0", "1") \o Id("0", "2") }

GateThresholdArgs == {None, NotAFloat}

GateInit ==
    /\ sem = Capacity
    /\ pc = [t \in Threads |-> "idle"]
    /\ req = [t \in Threads |-> None]
    /\ acquired = [t \in Threads |-> FALSE]
    /\ wait = [t \in Threads |-> 0]
    /\ resp = [t \in Threads |-> None]
    /\ work = [t \in Threads |-> <<>>]
    /\ releases = [t \in Threads |-> 0]
    /\ freed = [t \in Threads |-> FALSE]

----------------------------------------------------------------------------
(* Python and SQL helpers of results.py *)

Digits == <<"0", "1", "2", "3", "4", "5", "6", "7", "8", "9">>

IsDigit(c) == \E i \in 1..Len(Digits) : Digits[i] = c

DigitValue(c) == (CHOOSE i \in 1..Len(Digits) : Digits[i] = c) - 1

RECURSIVE Decimal(_)
Decimal(ds) ==
    IF ds = <<>> THEN 0
    ELSE 10 * Decimal(SubSeq(ds, 1, Len(ds) - 1)) + DigitValue(ds[Len(ds)])

\* int(x) for a str: an optional sign followed by decimal digits, else
\* ValueError (surrounding blanks and digit-group underscores are left out)
PyInt(x) ==
    LET signed == x # <<>> /\ x[1] \in {"+", "-"}
        ds == IF signed THEN Tail(x) ELSE x
    IN IF ds = <<>> \/ \E i \in 1..Len(ds) : ~IsDigit(ds[i])
       THEN [ok |-> FALSE]
       ELSE [ok |-> TRUE,
             v |-> IF signed /\ x[1] = "-" THEN -Decimal(ds) ELSE Decimal(ds)]

\* the character order string comparison goes by
Alphabet == Digits \o <<"l", "n", "u">>

Ord(c) == CHOOSE i \in 1..Len(Alphabet) : Alphabet[i] = c

\* a < b for strings, lexicographically
StrLt(a, b) ==
    \E i \in 1..(Len(a) + 1) :
        /\ i <= Len(b)
        /\ \A j \in 1..(i - 1) : a[j] = b[j]
        /\ (i = Len(a) + 1 \/ Ord(a[i]) < Ord(b[i]))

StrLe(a, b) == a = b \/ StrLt(a, b)

\* truthiness of f.request.args.get(name): given and not empty
Given(arg) == arg # None /\ arg.s # <<>>

NullText == <<"n", "u", "l", "l">>

\* the text of a timestamp; timestamps are numbered in time order
TsText(t) == [k |-> "str", s |-> <<"t">>, t |-> t]

\* the id (a time-ordered UUID) of the n-th result inserted
NewId(n) == <<Digits[(n \div 10) + 1], Digits[(n % 10) + 1]>>

----------------------------------------------------------------------------
(* results.py: BenchmarkListAPI.get *)

\* `BenchmarkResult.timestamp >= "2023-06-03"`, timestamps being numbered
LegacyCutoff == 1

DefaultPageSize == 100

MaxPageSize == 1000

PageSizeUpToOneMore(page_size) == 1 <= page_size /\ page_size <= MaxPageSize + 1

\* assert 1 <= page_size <= 1000
PageSizeInRange(page_size) == 1 <= page_size /\ page_size <= MaxPageSize

\* page_size after validation, or the abort
ValidatedPageSize(page_size_arg) ==
    LET parsed == IF page_size_arg = None
                  THEN [ok |-> TRUE, v |-> DefaultPageSize]
                  ELSE PyInt(page_size_arg.s)
    IN IF parsed.ok /\ PageSizeInRange(parsed.v)
       THEN [ok |-> TRUE, page_size |-> parsed.v]
       ELSE Abort(400, "page_size must be a positive integer no greater than 1000")

CursorFilterInclusive(id, cursor_arg) == StrLe(id, cursor_arg)

\* BenchmarkResult.id < cursor_arg
CursorFilter(id, cursor_arg) == StrLt(id, cursor_arg)

MatchesLegacyAlways(r, args) ==
    /\ r.timestamp >= LegacyCutoff
    /\ Given(args.run_id) => r.run_id = args.run_id.s
    /\ Given(args.earliest_timestamp) =>
           r.timestamp >= args.earliest_timestamp.t
    /\ Given(args.latest_timestamp) =>
           r.timestamp <= args.latest_timestamp.t
    /\ Given(args.run_reason) => r.run_reason = args.run_reason.s
    /\ (Given(args.cursor) /\ args.cursor.s # NullText) =>
           CursorFilter(r.id, args.cursor.s)

\* the conjunction of `filters` for one row
Matches(r, args) ==
    /\ IF Given(args.run_id) THEN r.run_id = args.run_id.s
       ELSE r.timestamp >= LegacyCutoff
    /\ Given(args.earliest_timestamp) =>
           r.timestamp >= args.earliest_timestamp.t
    /\ Given(args.latest_timestamp) =>
           r.timestamp <= args.latest_timestamp.t
    /\ Given(args.run_reason) => r.run_reason = args.run_reason.s
    /\ (Given(args.cursor) /\ args.cursor.s # NullText) =>
           CursorFilter(r.id, args.cursor.s)

MatchingRows(table, args) ==
    {table[i] : i \in {j \in 1..Len(table) : Matches(table[j], args)}}

OrderByIdAscLimit(M, page_size) ==
    LET rank == [r \in M |-> Cardinality({q \in M : StrLt(q.id, r.id)})]
        n == IF Cardinality(M) < page_size THEN Cardinality(M) ELSE page_size
    IN [i \in 1..n |-> CHOOSE r \in M : rank[r] = i - 1]

\* .order_by(BenchmarkResult.id.desc()).limit(page_size)
OrderByIdDescLimit(M, page_size) ==
    LET rank == [r \in M |-> Cardinality({q \in M : StrLt(r.id, q.id)})]
        n == IF Cardinality(M) < page_size THEN Cardinality(M) ELSE page_size
    IN [i \in 1..n |-> CHOOSE r \in M : rank[r] = i - 1]

AlwaysLastId(benchmark_results, page_size) ==
    IF benchmark_results # <<>>
    THEN Str(benchmark_results[Len(benchmark_results)].id)
    ELSE None

\* the if/else computing next_page_cursor
NextPageCursor(benchmark_results, page_size) ==
    IF Len(benchmark_results) = page_size
    THEN Str(benchmark_results[Len(benchmark_results)].id)
    ELSE None

BenchmarkListAPI_get(table, args) ==
    LET validated == ValidatedPageSize(args.page_size)
        benchmark_results ==
            OrderByIdDescLimit(MatchingRows(table, args), validated.page_size)
    IN IF ~validated.ok
       THEN [status |-> 400]
       ELSE [status |-> 200,
             page_size |-> validated.page_size,
             data |-> benchmark_results,
             next_page_cursor |->
                 NextPageCursor(benchmark_results, validated.page_size)]

----------------------------------------------------------------------------
(* The listing endpoint and a client that pages through it *)

\* what distinguishes inserted results for the listing: run, timestamp and
\* the run's reason
RowKinds ==
    { [run_id |-> Id("0", "1"), timestamp |-> 0, run_reason |-> <<"c">>],
      [run_id |-> Id("0", "1"), timestamp |-> 1, run_reason |-> <<"c">>],
      [run_id |-> Id("0", "2"), timestamp |-> 1, run_reason |-> <<"n">>],
      [run_id |-> Id("0", "2"), timestamp |-> 2, run_reason |-> <<"n">>] }

\* the n-th kind of row of the list above
RowKind(n) ==
    CHOOSE k \in RowKinds :
        /\ k.run_id = (IF n <= 2 THEN Id("0", "1") ELSE Id("0", "2"))
        /\ k.timestamp = (IF n = 1 THEN 0 ELSE IF n = 4 THEN 2 ELSE 1)

\* the table after the results of `kinds` were inserted in that order
TableOf(kinds) ==
    [i \in 1..Len(kinds) |->
        BenchmarkResult(NewId(i), kinds[i].run_id, kinds[i].timestamp,
                        kinds[i].run_reason, Unit("s"), FALSE, FNum(1), None,
                        "f1", Commit)]

Tables == UNION {{TableOf(kinds) : kinds \in [1..n -> RowKinds]} : n \in 0..MaxRows}

PageSizeTexts ==
    { <<>>, <<"0">>, <<"1">>, <<"2">>, <<"3">>, <<"-", "1">>,
      <<"1", ".", "5">>, <<"x">>, <<"1", "0", "0", "0">>,
      <<"1", "0", "0", "1">> }

PageSizeArgs == {Str(x) : x \in PageSizeTexts} \cup {None}

ListArgs ==
    [run_id : {None, Str(<<>>), Str(Id("0", "1"))},
     earliest_timestamp : {None, TsText(2)},
     latest_timestamp : {None, TsText(1)},
     run_reason : {None, Str(<<"n">>)},
     cursor : {None, Str(NullText), Str(NewId(2))},
     page_size : PageSizeArgs]

\* a request is at hand and not answered yet
ListPending == listing # None /\ listing.resp = None

\* BenchmarkListAPI.get handles the request
ListGet ==
    /\ ListPending
    /\ LET r == BenchmarkListAPI_get(rows, listing.args)
       IN /\ listing' = [listing EXCEPT !.resp = r]
          /\ trav' = IF r.status = 200 THEN Append(trav, r.data) ELSE trav
    /\ UNCHANGED <<gateVars, cmp, rows, call>>

\* the client asks for the next page, passing next_page_cursor back unmodified
FollowCursor ==
    /\ listing # None /\ listing.resp # None
    /\ listing.resp.status = 200
    /\ listing.resp.next_page_cursor # None
    /\ listing' = [args |-> [listing.args EXCEPT
                                !.cursor = listing.resp.next_page_cursor],
                   first |-> listing.first,
                   resp |-> None]
    /\ UNCHANGED <<gateVars, cmp, rows, trav, call>>

----------------------------------------------------------------------------
(* The request-handling threads: get() of the two compare endpoints behind *)
(* the gate, and BenchmarkListAPI.get next to them                         *)

AcquireNonBlocking(value, remaining) ==
    IF value > 0 THEN "acquired" ELSE "timeout"

\* threading.Semaphore.acquire(timeout=...), one pass of its loop: the slot
\* is taken when the counter is positive; otherwise the call gives up once
\* the timeout has elapsed and keeps waiting until then
AcquireOutcome(value, remaining) ==
    IF value > 0 THEN "acquired"
    ELSE IF remaining = 0 THEN "timeout"
    ELSE "wait"

ReleasesAlways(acq) == TRUE

\* _sem_acquire's finally block: `if acquired: sem.release()`
ReleasesOnExit(acq) == acq

RunsGuardedWorkAlways(acq) == TRUE

\* get(): `if acquired: return self._get(compare_ids)`
RunsGuardedWork(acq) == acq

GatedAll(endpoint) == TRUE

\* the endpoints whose get() wraps its work in
\* `with _sem_acquire(_semaphore_compare_get, 0.1)`
Gated(endpoint) == endpoint \in Endpoints

\* query arguments of the list requests the threads serve next to the
\* compare requests: none, and a page_size that is refused
GateListArgs ==
    {[run_id |-> None, earliest_timestamp |-> None, latest_timestamp |-> None,
      run_reason |-> None, cursor |-> None, page_size |-> ps] :
        ps \in {None, Str(<<"0">>)}}

Requests ==
    [endpoint : Endpoints, compare_ids : Tokens]
        \cup [endpoint : {"BenchmarkListAPI"}, args : GateListArgs]

\* get() is entered: for a compare endpoint up to the first pass of
\* sem.acquire(timeout=0.1); BenchmarkListAPI.get goes straight to its work
Get(t) ==
    \E request \in Requests :
        /\ pc[t] = "idle"
        /\ req' = [req EXCEPT ![t] = request]
        /\ IF ~Gated(request.endpoint)
           THEN /\ pc' = [pc EXCEPT ![t] = "body"]
                /\ UNCHANGED <<sem, acquired, wait>>
           ELSE /\ IF AcquireOutcome(sem, TimeoutTicks) = "acquired"
                   THEN /\ sem' = sem - 1
                        /\ acquired' = [acquired EXCEPT ![t] = TRUE]
                        /\ pc' = [pc EXCEPT ![t] = "body"]
                   ELSE /\ pc' = [pc EXCEPT ![t] = "waiting"]
                        /\ UNCHANGED <<sem, acquired>>
                /\ wait' = [wait EXCEPT ![t] = TimeoutTicks]
        /\ UNCHANGED <<resp, work, releases, freed, cmp, listVars, call>>

\* a waiting sem.acquire wakes up (notified, or its wait timed out)
WaitWake(t) ==
    /\ pc[t] = "waiting"
    /\ AcquireOutcome(sem, wait[t]) # "wait"
    /\ IF AcquireOutcome(sem, wait[t]) = "acquired"
       THEN /\ sem' = sem - 1
            /\ acquired' = [acquired EXCEPT ![t] = TRUE]
       ELSE UNCHANGED <<sem, acquired>>
    /\ pc' = [pc EXCEPT ![t] = "body"]
    /\ wait' = [wait EXCEPT ![t] = 0]
    /\ freed' = [freed EXCEPT ![t] = FALSE]
    /\ UNCHANGED <<req, resp, work, releases, cmp, listVars, call>>

\* the clock advances one tick; a wait whose timeout has elapsed returns
\* before the clock advances further
Tick ==
    /\ \E t \in Threads : pc[t] = "waiting"
    /\ \A t \in Threads : pc[t] = "waiting" => wait[t] > 0
    /\ wait' = [t \in Threads |->
                   IF pc[t] = "waiting" THEN wait[t] - 1 ELSE wait[t]]
    /\ UNCHANGED <<sem, pc, req, acquired, resp, work, releases, freed,
                   cmp, listVars, call>>

\* What the body of the with statement can produce: _get() when acquired,
\* else resp429.  _get()'s result depends on the query arguments, on whether
\* a collaborator fails and on the order a set of fingerprints is iterated in.
\* BenchmarkListAPI.get has no with statement: its body is the whole method.
WithBody(request, acq, table) ==
    IF Gated(request.endpoint) /\ ~RunsGuardedWork(acq)
    THEN {Response(429, <<>>, "doing other /compare work, retry soon")}
    ELSE IF request.endpoint = "BenchmarkListAPI"
    THEN LET r == BenchmarkListAPI_get(table, request.args)
         IN {IF r.status = 200 THEN Response(200, <<>>, r.data)
             ELSE Response(r.status, <<>>, "page_size")}
    ELSE IF request.endpoint = "CompareBenchmarkResultsAPI"
    THEN {CompareBenchmarkResultsAPI_get(table, request.compare_ids,
                                         threshold_arg, None, fault) :
             threshold_arg \in GateThresholdArgs, fault \in Faults}
    ELSE UNION {{CompareRunsAPI_get(table, request.compare_ids, threshold_arg,
                                    None, fault, order) :
                    threshold_arg \in GateThresholdArgs, fault \in Faults} :
                order \in JoinOrders(table, request.compare_ids)}

\* The body of the with statement, then _sem_acquire's finally block, which
\* runs however the body ended.  The thread holds the slot (if it acquired
\* it) from its acquire until this step.
Body(t) ==
    /\ pc[t] = "body"
    /\ \E r \in WithBody(req[t], acquired[t], rows) :
          /\ work' = [work EXCEPT ![t] = r.work]
          /\ IF ReleasesOnExit(acquired[t])
             THEN IF sem >= Capacity
                  THEN \* BoundedSemaphore.release raises ValueError
                       /\ resp' = [resp EXCEPT ![t] =
                                      [status |-> 500, body |-> ErrorBody("ValueError")]]
                       /\ UNCHANGED <<sem, releases, freed>>
                  ELSE /\ sem' = sem + 1
                       /\ releases' = [releases EXCEPT ![t] = releases[t] + 1]
                       /\ freed' = [u \in Threads |->
                                       freed[u] \/ pc[u] = "waiting"]
                       /\ resp' = [resp EXCEPT ![t] =
                                      [status |-> r.status, body |-> r.body]]
             ELSE /\ resp' = [resp EXCEPT ![t] =
                                 [status |-> r.status, body |-> r.body]]
                  /\ UNCHANGED <<sem, releases, freed>>
    /\ pc' = [pc EXCEPT ![t] = "done"]
    /\ UNCHANGED <<req, acquired, wait, cmp, listVars, call>>

\* the response has been sent; the thread takes the next request
Return(t) ==
    /\ pc[t] = "done"
    /\ pc' = [pc EXCEPT ![t] = "idle"]
    /\ req' = [req EXCEPT ![t] = None]
    /\ acquired' = [acquired EXCEPT ![t] = FALSE]
    /\ resp' = [resp EXCEPT ![t] = None]
    /\ work' = [work EXCEPT ![t] = <<>>]
    /\ releases' = [releases EXCEPT ![t] = 0]
    /\ freed' = [freed EXCEPT ![t] = FALSE]
    /\ wait' = [wait EXCEPT ![t] = 0]
    /\ UNCHANGED <<sem, cmp, listVars, call>>

----------------------------------------------------------------------------
(* One compare request taken alone: get() of either endpoint, from the value *)
(* _sem_acquire yields to the response                                       *)

\* A table for compare requests.  Run 01 holds results 01, 04 and 06, run 02
\* results 02 and 05, run 03 result 03, which has no commit.  Result 02
\* varies in unit, failure and the z-score the annotator finds for it.
ApiRows(unit, is_failed, hist_z) ==
    << BenchmarkResult(Id("0", "1"), Id("0", "1"), 1, "commit", Unit("s"), FALSE,
                       FNum(2), None, "f1", Commit),
       BenchmarkResult(Id("0", "2"), Id("0", "2"), 1, "commit", unit, is_failed,
                       IF is_failed THEN NaN ELSE FNum(1), hist_z, "f1", Commit),
       BenchmarkResult(Id("0", "3"), Id("0", "3"), 1, "commit", Unit("s"), FALSE,
                       FNum(1), None, "f1", None),
       BenchmarkResult(Id("0", "4"), Id("0", "1"), 1, "commit", Unit("s"), FALSE,
                       FNum(0), None, "f2", Commit),
       BenchmarkResult(Id("0", "5"), Id("0", "2"), 1, "commit", Unit("s"), FALSE,
                       FNum(1), FNum(1), "f1", Commit),
       BenchmarkResult(Id("0", "6"), Id("0", "1"), 1, "commit", Unit("s"), FALSE,
                       FNum(1), None, "f1", Commit) >>

ApiTables ==
    {ApiRows(Unit(u), is_failed, hist_z) :
        u \in Units, is_failed \in BOOLEAN, hist_z \in ZValues}

\* ids of results and of runs a request may name; 09 names nothing
ApiIds == {Id("0", "1"), Id("0", "2"), Id("0", "3"), Id("0", "9")}

ApiTokens ==
    {a \o Sep \o b : a, b \in ApiIds}
        \cup {Id("0", "1") \o Id("0", "2"), Sep \o Id("0", "2"),
              Id("0", "1") \o Sep, Sep}

ApiCalls ==
    [op : {"get"}, endpoint : Endpoints, compare_ids : ApiTokens,
     threshold_arg : GateThresholdArgs, threshold_z_arg : {None},
     fault : Faults, acquired : BOOLEAN, order : {<<>>}, resp : {None}]

\* the body of get()'s with statement for this call
GetResponse(c, table, order) ==
    IF ~RunsGuardedWork(c.acquired)
    THEN Response(429, <<>>, "doing other /compare work, retry soon")
    ELSE IF c.endpoint = "CompareBenchmarkResultsAPI"
    THEN CompareBenchmarkResultsAPI_get(table, c.compare_ids, c.threshold_arg,
                                        c.threshold_z_arg, c.fault)
    ELSE CompareRunsAPI_get(table, c.compare_ids, c.threshold_arg,
                            c.threshold_z_arg, c.fault, order)

ApiPending == call # None /\ call.op = "get" /\ call.resp = None

\* get() runs to its response
Serve ==
    /\ ApiPending
    /\ \E order \in (IF call.endpoint = "CompareRunsAPI"
                      THEN JoinOrders(rows, call.compare_ids) ELSE {<<>>}) :
          call' = [call EXCEPT !.order = order,
                               !.resp = GetResponse(call, rows, order)]
    /\ UNCHANGED <<gateVars, cmp, listVars>>

----------------------------------------------------------------------------
(* _join_results applied to two lists of results *)

FingSeqs == UNION {[1..n -> {"f1", "f2"}] : n \in 0..MaxJoin}

\* results with the given fingerprints, with ids from `first` + 1 on
JoinSide(first, fings) ==
    [i \in 1..Len(fings) |->
        BenchmarkResult(NewId(first + i), Id("0", "1"), 1, "commit", Unit("s"),
                        FALSE, FNum(1), None, fings[i], Commit)]

JoinCalls ==
    {[op |-> "join", baseline_results |-> JoinSide(0, bf),
      contender_results |-> JoinSide(10, cf), done |-> FALSE, joined |-> <<>>] :
        bf \in FingSeqs, cf \in FingSeqs}

Join ==
    /\ call # None /\ call.op = "join" /\ ~call.done
    /\ \E order \in IterationOrders(Fingerprints(call.baseline_results)
                         \cup Fingerprints(call.contender_results)) :
          call' = [call EXCEPT
                      !.done = TRUE,
                      !.joined = join_results(call.baseline_results,
                                              call.contender_results, order)]
    /\ UNCHANGED <<gateVars, cmp, listVars>>

----------------------------------------------------------------------------
(* _parse_two_ids_or_abort applied to a path segment *)

TokenTexts == UNION {[1..n -> {"a", "."}] : n \in 0..MaxTokenLen}

ParseCalls == {[op |-> "parse", compare_ids |-> t, result |-> None] : t \in TokenTexts}

Parse ==
    /\ call # None /\ call.op = "parse" /\ call.result = None
    /\ call' = [call EXCEPT !.result = parse_two_ids_or_abort(call.compare_ids)]
    /\ UNCHANGED <<gateVars, cmp, listVars>>

----------------------------------------------------------------------------
(* Specifications *)

ListIdle == rows = <<>> /\ listing = None /\ trav = None

\* Concurrent compare requests against a populated table
Init ==
    /\ GateInit
    /\ CmpInit
    /\ rows = SampleRows
    /\ listing = None
    /\ trav = None
    /\ call = None

Next ==
    \/ \E t \in Threads : Get(t)
    \/ \E t \in Threads : WaitWake(t)
    \/ Tick
    \/ \E t \in Threads : Body(t)
    \/ \E t \in Threads : Return(t)

Spec == Init /\ [][Next]_vars

\* A client pages through a table; trav holds the pages it has received
InitList ==
    /\ GateInit
    /\ CmpInit
    /\ rows \in Tables
    /\ listing \in {[args |-> a, first |-> a.cursor, resp |-> None] : a \in ListArgs}
    /\ trav = <<>>
    /\ call = None

NextList == ListGet \/ FollowCursor

SpecList == InitList /\ [][NextList]_vars

\* The comparator applied to every pair of inputs
InitCmp ==
    /\ GateInit
    /\ ListIdle
    /\ cmp \in {[in |-> in, raised |-> "pending"] : in \in CmpInputs}
    /\ call = None

NextCmp == Compare

SpecCmp == InitCmp /\ [][NextCmp]_vars

\* One compare request against every table
InitApi ==
    /\ GateInit
    /\ CmpInit
    /\ rows \in ApiTables
    /\ listing = None
    /\ trav = None
    /\ call \in ApiCalls

NextApi == Serve

SpecApi == InitApi /\ [][NextApi]_vars

\* _join_results applied to every two lists of results
InitJoin ==
    /\ GateInit
    /\ CmpInit
    /\ ListIdle
    /\ call \in JoinCalls

NextJoin == Join

SpecJoin == InitJoin /\ [][NextJoin]_vars

\* _parse_two_ids_or_abort applied to every path segment
InitParse ==
    /\ GateInit
    /\ CmpInit
    /\ ListIdle
    /\ call \in ParseCalls

NextParse == Parse

SpecParse == InitParse /\ [][NextParse]_vars

----------------------------------------------------------------------------
(* Claims about the admission gate, checked under Spec *)

\* thread t is executing the guarded work of its endpoint
Holding(t) == pc[t] = "body" /\ acquired[t]

Holders == {t \in Threads : Holding(t)}

\* C1: under any interleaving of compare_pair and compare_runs requests, at
\* most one request is executing guarded work at any time, whichever of the
\* two endpoints the requests are for; the counter accounts for the holder.
C1_AtMostOneHolder ==
    /\ \A t, u \in Threads : (t # u /\ Holding(t)) => ~Holding(u)
    /\ sem = 1 - Cardinality(Holders)

\* C1 witness: a compare_pair request holds the slot while a compare_runs
\* request is kept out.
C1_Witness ==
    \E t, u \in Threads :
        /\ Holding(t) /\ req[t].endpoint = "CompareBenchmarkResultsAPI"
        /\ pc[u] \in {"waiting", "body"} /\ ~acquired[u]
        /\ req[u].endpoint = "CompareRunsAPI"

\* C2: a request that acquired the slot has released it exactly once when it
\* has left the guarded work, whatever the response; a request that did not
\* acquire never releases; the counter never exceeds the capacity, and it is
\* back at full capacity when no request is in flight.
C2_ReleasedExactlyOnce ==
    /\ sem \in 0..Capacity
    /\ \A t \in Threads :
        /\ pc[t] = "done" => releases[t] = (IF acquired[t] THEN 1 ELSE 0)
        /\ pc[t] # "done" => releases[t] = 0
    /\ (\A t \in Threads : pc[t] \in {"idle", "done"}) => sem = Capacity

\* C2 witness: requests have left the guarded work by a bad-request abort
\* and by a collaborator fault, and a rejected request has finished too.
C2_Witness ==
    \E t, u \in Threads :
        /\ pc[t] = "done" /\ acquired[t] /\ resp[t].status \in {400, 500}
        /\ releases[t] = 1
        /\ pc[u] = "done" /\ ~acquired[u] /\ releases[u] = 0

\* C3: a request that did not obtain the slot answers retry-later and has
\* performed none of the guarded work; retry-later is only ever answered by
\* such a request; and a request waits no longer than the timeout.
C3_RejectedDoesNoWork ==
    \A t \in Threads :
        /\ (pc[t] = "done" /\ ~acquired[t] /\ req[t].endpoint \in Endpoints) =>
               (resp[t].status = 429 /\ work[t] = <<>>)
        /\ (pc[t] = "done" /\ resp[t].status = 429) =>
               (~acquired[t] /\ work[t] = <<>>)
        /\ pc[t] = "waiting" => wait[t] \in 0..TimeoutTicks

\* C3 witness: a request was rejected while another did guarded work.
C3_Witness ==
    \E t, u \in Threads :
        /\ pc[t] = "done" /\ resp[t].status = 429
        /\ pc[u] = "done" /\ acquired[u] /\ work[u] # <<>>

\* thread t's sem.acquire returns in this step, after having waited
WaitEnds(t) == pc[t] = "waiting" /\ pc'[t] # "waiting"

\* thread t calls sem.acquire in this step
AcquireStarts(t) ==
    pc[t] = "idle" /\ pc'[t] # "idle" /\ req'[t].endpoint \in Endpoints

\* an acquire during which nobody released fails, once the timeout elapsed
C4_FailsAfterTimeout(t) ==
    (WaitEnds(t) /\ ~freed[t]) => (~acquired'[t] /\ wait[t] = 0)

\* an acquire attempted while the slot is free succeeds at once
C4_SucceedsImmediately(t) ==
    (AcquireStarts(t) /\ sem > 0) => (acquired'[t] /\ pc'[t] = "body")

\* C4 as stated: a waiter whose holder releases inside the timeout window
\* obtains the slot.
C4_AsStated ==
    [][\A t \in Threads :
          /\ C4_FailsAfterTimeout(t)
          /\ C4_SucceedsImmediately(t)
          /\ (WaitEnds(t) /\ freed[t]) => acquired'[t]]_vars

\* C4 amended: with a gate of capacity 1, an acquire during whose timeout
\* window no holder releases fails once the timeout has elapsed; an acquire
\* attempted while the slot is free succeeds immediately; a waiter obtains
\* the slot exactly if the slot is free when it wakes up, so a waiter whose
\* holder releases inside the window obtains it unless another request has
\* taken the slot first, and it then fails only once its timeout has elapsed.
C4_TimedAcquire ==
    [][\A t \in Threads :
          /\ C4_FailsAfterTimeout(t)
          /\ C4_SucceedsImmediately(t)
          /\ WaitEnds(t) => (acquired'[t] <=> sem > 0)
          /\ (WaitEnds(t) /\ ~acquired'[t]) => wait[t] = 0]_vars

\* C4 witness: the holder released inside a waiter's window, another
\* request took the slot, and the waiter's timeout has elapsed.
C4_Witness ==
    \E t \in Threads :
        pc[t] = "waiting" /\ freed[t] /\ wait[t] = 0 /\ sem = 0

----------------------------------------------------------------------------
(* Claims about the comparator, checked under SpecCmp *)

\* a comparator has been constructed (no exception) from cmp.in
Constructed == cmp # None /\ cmp.raised = "none"

Present(result) == result # None

BothPresentNoneFailed ==
    /\ Present(cmp.in.baseline) /\ Present(cmp.in.contender)
    /\ ~cmp.in.baseline.is_failed /\ ~cmp.in.contender.is_failed

\* C8: for every constructed comparison, do_comparison is true exactly when
\* both sides are present and neither is failed, and the two units are then
\* equal; otherwise both analyses, unit and less_is_better are null.
C8_DoComparison ==
    Constructed =>
        /\ cmp.do_comparison <=> BothPresentNoneFailed
        /\ cmp.do_comparison =>
              /\ cmp.in.baseline.unit = cmp.in.contender.unit
              /\ cmp.json.unit = cmp.in.baseline.unit
              /\ cmp.json.unit # None
        /\ ~BothPresentNoneFailed =>
              /\ ~cmp.do_comparison
              /\ cmp.json.analysis.pairwise = None
              /\ cmp.json.analysis.lookback_z_score = None
              /\ cmp.json.unit = None
              /\ cmp.json.less_is_better = None

\* C8 witness: a comparison constructed from a present baseline and a failed
\* contender whose unit differs from the baseline's.
C8_Witness ==
    /\ Constructed
    /\ Present(cmp.in.baseline) /\ ~cmp.in.baseline.is_failed
    /\ Present(cmp.in.contender) /\ cmp.in.contender.is_failed
    /\ cmp.in.contender.unit # cmp.in.baseline.unit

\* C9: for every constructed comparison, the pairwise analysis is null
\* exactly when do_comparison is false or the baseline's summary value
\* equals 0; otherwise it is a record, whatever the two values are.
C9_PairwiseNullIff ==
    Constructed =>
        (cmp.json.analysis.pairwise = None
            <=> (~BothPresentNoneFailed
                    \/ cmp.in.baseline.svs = FNum(0)))

\* C9 witness: both sides present and not failed, a NaN baseline value, and
\* a pairwise record all the same.
C9_Witness ==
    /\ Constructed
    /\ BothPresentNoneFailed
    /\ IsNan(cmp.in.baseline.svs)
    /\ cmp.in.contender.svs = FNum(0)
    /\ cmp.json.analysis.pairwise # None

\* 100 * (c - b) / |b|, negated when less_is_better, from the two summary
\* values handed to the comparator (b # 0)
ExpectedPercentChange ==
    LET b == cmp.in.baseline.svs
        c == cmp.in.contender.svs
        sign == IF cmp.json.less_is_better = Bool(TRUE) THEN -1 ELSE 1
    IN IF IsNan(b) \/ IsNan(c) THEN NaN
       ELSE Rat(sign * 100 * (c.n - b.n), IF b.n < 0 THEN -b.n ELSE b.n)

BothIndicated(analysis) ==
    analysis # None
        /\ analysis.regression_indicated /\ analysis.improvement_indicated

\* a threshold that is not negative: zero, positive, +inf, or NaN
NotNegative(threshold) ==
    \/ IsNan(threshold)
    \/ threshold = PosInf
    \/ (threshold.k = "float" /\ threshold.n >= 0)

\* C10 as stated: in every non-null analysis, for every threshold a caller
\* can supply, regression_indicated and improvement_indicated are never both
\* true.
C10_AsStated ==
    Constructed =>
        /\ ~BothIndicated(cmp.json.analysis.pairwise)
        /\ ~BothIndicated(cmp.json.analysis.lookback_z_score)

\* C10 amended: in every non-null pairwise analysis whose threshold is not
\* negative and every non-null lookback analysis whose threshold_z is not
\* negative (this includes the defaults), regression_indicated and
\* improvement_indicated are never both true; with a negative threshold t
\* both are true exactly when the magnitude of the unrounded value is
\* below -t.
C10_ExclusiveUnlessNegative ==
    Constructed =>
        LET pw == cmp.json.analysis.pairwise
            lb == cmp.json.analysis.lookback_z_score
        IN /\ NotNegative(cmp.threshold) => ~BothIndicated(pw)
           /\ NotNegative(cmp.threshold_z) => ~BothIndicated(lb)
           /\ pw # None =>
                 (BothIndicated(pw)
                     <=> FGt(FNeg(FAbs(ExpectedPercentChange)), cmp.threshold))
           /\ lb # None =>
                 (BothIndicated(lb)
                     <=> FGt(FNeg(FAbs(cmp.in.contender.z_score)),
                             cmp.threshold_z))

\* C10 witness: both analyses are records, the supplied thresholds are zero,
\* and each analysis indicates exactly one of the two.
C10_Witness ==
    /\ Constructed
    /\ cmp.in.threshold_arg = Arg(FNum(0))
    /\ cmp.in.threshold_z_arg = Arg(FNum(0))
    /\ cmp.json.analysis.pairwise # None
    /\ cmp.json.analysis.pairwise.regression_indicated
    /\ ~cmp.json.analysis.pairwise.improvement_indicated
    /\ cmp.json.analysis.lookback_z_score # None
    /\ cmp.json.analysis.lookback_z_score.improvement_indicated
    /\ ~cmp.json.analysis.lookback_z_score.regression_indicated

\* two output numbers are the same value (null standing for NaN)
SameOutput(x, y) == IF x = None \/ y = None THEN x = y ELSE FEq(x, y)

\* what the claim says of percent_change and of the two indications
C11_Formulas ==
    LET pw == cmp.json.analysis.pairwise
    IN /\ SameOutput(pw.percent_change, round(ExpectedPercentChange))
       /\ pw.regression_indicated
             <=> FGt(FNeg(cmp.threshold), ExpectedPercentChange)
       /\ pw.improvement_indicated
             <=> FGt(ExpectedPercentChange, cmp.threshold)

\* the change is exactly the threshold, in one direction or the other
ChangeIsThreshold ==
    \/ FEq(ExpectedPercentChange, cmp.threshold)
    \/ FEq(ExpectedPercentChange, FNeg(cmp.threshold))

\* C11 as stated: percent_change = 100*(c-b)/|b|, negated when
\* less_is_better; regression exactly when percent_change < -threshold,
\* improvement exactly when percent_change > threshold; a change of exactly
\* the threshold indicates neither.
C11_AsStated ==
    (Constructed /\ cmp.json.analysis.pairwise # None) =>
        /\ C11_Formulas
        /\ ChangeIsThreshold =>
              /\ ~cmp.json.analysis.pairwise.regression_indicated
              /\ ~cmp.json.analysis.pairwise.improvement_indicated

\* C11 amended: the same value and the same two strict comparisons; a
\* change of exactly the threshold indicates neither when the threshold is
\* not negative, and in any case a percent_change equal to the threshold
\* indicates no improvement and one equal to -threshold no regression.
C11_PercentChange ==
    (Constructed /\ cmp.json.analysis.pairwise # None) =>
        LET pw == cmp.json.analysis.pairwise
        IN /\ C11_Formulas
           /\ FEq(ExpectedPercentChange, cmp.threshold)
                 => ~pw.improvement_indicated
           /\ FEq(ExpectedPercentChange, FNeg(cmp.threshold))
                 => ~pw.regression_indicated
           /\ (ChangeIsThreshold /\ NotNegative(cmp.threshold)) =>
                 (~pw.regression_indicated /\ ~pw.improvement_indicated)

\* C11 witness: less_is_better, default threshold, the contender twice the
\* baseline: percent_change -100 with regression only.
C11_Witness ==
    /\ Constructed
    /\ BothPresentNoneFailed
    /\ cmp.in.threshold_arg = None
    /\ cmp.in.baseline.svs = FNum(1) /\ cmp.in.contender.svs = FNum(2)
    /\ cmp.json.less_is_better = Bool(TRUE)
    /\ cmp.json.analysis.pairwise # None
    /\ FEq(cmp.json.analysis.pairwise.percent_change, FNum(-100))
    /\ cmp.json.analysis.pairwise.regression_indicated
    /\ ~cmp.json.analysis.pairwise.improvement_indicated

----------------------------------------------------------------------------
(* Claims about the listing endpoint, checked under SpecList *)

\* the request at hand has been answered
Answered == listing # None /\ listing.resp # None

Page200 == Answered /\ listing.resp.status = 200

\* C5: for every list_results call that returns a page, next_page_cursor is
\* the id of the page's last row, which is its smallest id, if the page
\* holds exactly page_size rows, and null otherwise (an empty page included).
C5_NextPageCursor ==
    Page200 =>
        LET data == listing.resp.data
            page_size == listing.resp.page_size
        IN /\ Len(data) <= page_size
           /\ IF Len(data) = page_size
              THEN /\ listing.resp.next_page_cursor = Str(data[Len(data)].id)
                   /\ \A i \in 1..Len(data) :
                         ~StrLt(data[i].id, data[Len(data)].id)
              ELSE listing.resp.next_page_cursor = None

\* C5 witness: a page of exactly page_size = 2 rows, with a cursor.
C5_Witness ==
    /\ Page200
    /\ listing.resp.page_size = 2
    /\ Len(listing.resp.data) = 2
    /\ listing.resp.next_page_cursor # None

RECURSIVE Flatten(_)
Flatten(pages) ==
    IF pages = <<>> THEN <<>> ELSE Head(pages) \o Flatten(Tail(pages))

\* the traversal started without a cursor
FromFirstPage == listing # None /\ ~(Given(listing.first) /\ listing.first.s # NullText)

\* the rows matching the caller's filters, whatever the cursor
AllMatching == MatchingRows(rows, [listing.args EXCEPT !.cursor = None])

\* the traversal has ended: the last page carried a null next_page_cursor
TraversalEnded == Page200 /\ listing.resp.next_page_cursor = None

\* C6: over a static stream of N matching rows, a client that starts with no
\* cursor and passes every next_page_cursor back receives the matching rows
\* in strictly decreasing id order, none twice, in pages of page_size rows
\* except the last; the traversal ends after at most N div page_size + 1
\* pages with a null cursor, having delivered every matching row: after
\* ceil(N / page_size) pages when N is not a multiple of page_size, and after
\* one additional, empty page when it is.
C6_Traversal ==
    (FromFirstPage /\ Page200) =>
        LET got == Flatten(trav)
            N == Cardinality(AllMatching)
            page_size == listing.resp.page_size
        IN /\ \A i, j \in 1..Len(got) : i < j => StrLt(got[j].id, got[i].id)
           /\ \A i \in 1..Len(got) : got[i] \in AllMatching
           /\ \A i \in 1..(Len(trav) - 1) : Len(trav[i]) = page_size
           /\ Len(trav) <= (N \div page_size) + 1
           /\ ~TraversalEnded => Len(trav[Len(trav)]) = page_size
           /\ TraversalEnded =>
                 /\ {got[i] : i \in 1..Len(got)} = AllMatching
                 /\ Len(got) = N
                 /\ IF N % page_size # 0
                    THEN /\ Len(trav) = (N \div page_size) + 1
                         /\ Len(trav[Len(trav)]) = N % page_size
                    ELSE /\ Len(trav) = (N \div page_size) + 1
                         /\ trav[Len(trav)] = <<>>

\* C6 witness: three matching rows fetched with page_size 2 as pages of two
\* rows and of one row.
C6_Witness ==
    /\ FromFirstPage /\ TraversalEnded
    /\ listing.resp.page_size = 2
    /\ Cardinality(AllMatching) = 3
    /\ Len(trav) = 2
    /\ Len(trav[2]) = 1

\* what the claim says of each page_size argument: rejected, or the page
\* size used
RejectedPageSizes ==
    {Str(<<>>), Str(<<"0">>), Str(<<"-", "1">>), Str(<<"1", ".", "5">>),
     Str(<<"x">>), Str(<<"1", "0", "0", "1">>)}

ClaimedPageSize(arg) ==
    CASE arg = None -> 100
      [] arg = Str(<<"1">>) -> 1
      [] arg = Str(<<"2">>) -> 2
      [] arg = Str(<<"3">>) -> 3
      [] arg = Str(<<"1", "0", "0", "0">>) -> 1000

\* C7: list_results fails as a bad request, returning no page, for every
\* page_size outside 1..1000 and every page_size that is no integer; it
\* succeeds for every integer in 1..1000, and it uses 100 when page_size is
\* not supplied.
C7_PageSizeValidation ==
    Answered =>
        IF listing.args.page_size \in RejectedPageSizes
        THEN listing.resp.status = 400 /\ trav = <<>>
        ELSE /\ listing.resp.status = 200
             /\ listing.resp.page_size = ClaimedPageSize(listing.args.page_size)
             /\ trav # <<>>

\* C7 witness: page_size=1000 is accepted and returns the whole table.
C7_Witness ==
    /\ Page200
    /\ listing.args.page_size = Str(<<"1", "0", "0", "0">>)
    /\ Len(listing.resp.data) = 3

----------------------------------------------------------------------------
(* Claims about a compare request taken alone, checked under SpecApi *)

ApiAnswered == call # None /\ call.op = "get" /\ call.resp # None

\* the request was answered with comparison records
ApiOk == ApiAnswered /\ call.resp.status = 200

\* the comparison records of the response
Records == call.resp.body.value

\* the stored result a record's baseline or contender entry stands for
RowOf(info) ==
    IF info = None THEN None
    ELSE BenchmarkResult_get(rows, info.benchmark_result_id)

RequestIds == parse_two_ids_or_abort(call.compare_ids)

\* the commit of the baseline result, or of the first result of the
\* baseline run
BaselineCommit ==
    IF call.endpoint = "CompareBenchmarkResultsAPI"
    THEN BenchmarkResult_get(rows, RequestIds.baseline_id).commit
    ELSE ResultsOfRun(rows, RequestIds.baseline_id)[1].commit

\* both sides of a record are present and neither is failed
Comparable(b, c) == b # None /\ c # None /\ ~b.is_failed /\ ~c.is_failed

\* the contender's z-score once the request has annotated it: what the
\* annotator finds if the baseline has a commit, else none
ZScoreOf(c) == IF BaselineCommit # None THEN c.hist_z ELSE None

\* C12: the lookback analysis of a returned comparison is null exactly when
\* do_comparison is false or the contender's z-score is absent or NaN; when
\* the baseline has no commit the annotator is not invoked and every
\* returned lookback analysis is null.
C12_LookbackNullIff ==
    ApiOk =>
        /\ \A i \in 1..Len(Records) :
              LET b == RowOf(Records[i].baseline)
                  c == RowOf(Records[i].contender)
              IN Records[i].analysis.lookback_z_score = None
                    <=> \/ ~Comparable(b, c)
                        \/ ZScoreOf(c) = None
                        \/ IsNan(ZScoreOf(c))
        /\ BaselineCommit = None =>
              /\ \A i \in 1..Len(call.resp.work) : call.resp.work[i] # "annotate"
              /\ \A i \in 1..Len(Records) :
                    Records[i].analysis.lookback_z_score = None

\* C12 witness: a baseline without commit compared with a contender for
\* which the annotator would find a z-score: a pairwise analysis and no
\* lookback analysis.
C12_Witness ==
    /\ ApiOk
    /\ call.endpoint = "CompareBenchmarkResultsAPI"
    /\ call.compare_ids = Id("0", "3") \o Sep \o Id("0", "2")
    /\ BenchmarkResult_get(rows, Id("0", "2")).hist_z = FNum(1)
    /\ Records[1].analysis.pairwise # None
    /\ Records[1].analysis.lookback_z_score = None

\* the request passed the gate, its token and thresholds parse, and no
\* collaborator fails
ApiClean ==
    /\ ApiAnswered
    /\ call.acquired
    /\ RequestIds.ok
    /\ call.threshold_arg # NotAFloat
    /\ call.fault = "none"

\* present, non-failed results with differing units
Mismatched(b, c) == Comparable(b, c) /\ b.unit # c.unit

\* the pairs _join_results yielded for this compare_runs request
JoinedPairs ==
    join_results(ResultsOfRun(rows, RequestIds.baseline_id),
                 ResultsOfRun(rows, RequestIds.contender_id), call.order)

\* C13: a pair of present, non-failed results with differing units makes
\* compare_pair answer bad-request without a comparison record; compare_runs
\* omits such a pair, returns a record for every other joined pair, in
\* order, and does not fail.
C13_UnitMismatch ==
    ApiClean =>
        IF call.endpoint = "CompareBenchmarkResultsAPI"
        THEN LET b == BenchmarkResult_get(rows, RequestIds.baseline_id)
                 c == BenchmarkResult_get(rows, RequestIds.contender_id)
             IN (b # None /\ c # None /\ Mismatched(b, c)) =>
                   /\ call.resp.status = 400
                   /\ call.resp.body.k = "error"
        ELSE (/\ ResultsOfRun(rows, RequestIds.baseline_id) # <<>>
              /\ ResultsOfRun(rows, RequestIds.contender_id) # <<>>) =>
                 LET kept == SelectSeq(JoinedPairs,
                                       LAMBDA pr : ~Mismatched(pr[1], pr[2]))
                 IN /\ call.resp.status = 200
                    /\ Len(Records) = Len(kept)
                    /\ \A i \in 1..Len(kept) :
                          /\ RowOf(Records[i].baseline) = kept[i][1]
                          /\ RowOf(Records[i].contender) = kept[i][2]

\* C13 witness: runs 01 and 02 join into five pairs, two of them with
\* differing units; the response holds the three other records.
C13_Witness ==
    /\ ApiOk
    /\ call.endpoint = "CompareRunsAPI"
    /\ call.compare_ids = Id("0", "1") \o Sep \o Id("0", "2")
    /\ Len(JoinedPairs) = 5
    /\ Cardinality({i \in 1..5 : Mismatched(JoinedPairs[i][1],
                                            JoinedPairs[i][2])}) = 2
    /\ Len(Records) = 3

----------------------------------------------------------------------------
(* Claims about _join_results, checked under SpecJoin *)

Joined == call # None /\ call.op = "join" /\ call.done

\* the results of one side that have fingerprint f, or the absent
\* placeholder if there are none
MembersOrAbsent(results, f) ==
    LET members == {results[i] : i \in {j \in 1..Len(results) :
                                        results[j].history_fingerprint = f}}
    IN IF members = {} THEN {None} ELSE members

\* the fingerprint of a pair, taken from a side that is present
PairFing(pr) ==
    IF pr[1] # None THEN pr[1].history_fingerprint
    ELSE pr[2].history_fingerprint

\* C14: the join is, for each fingerprint occurring on either side, the
\* cartesian product of its baseline members (or one absent placeholder)
\* with its contender members (or one absent placeholder), each pair once:
\* max(1,b)*max(1,c) pairs per fingerprint; disjoint fingerprints give m+n
\* pairs with one side absent each; every input occurs in a pair, no pair
\* has both sides absent, and two present sides have equal fingerprints.
C14_Join ==
    Joined =>
        LET B == call.baseline_results
            C == call.contender_results
            J == call.joined
            F == Fingerprints(B) \cup Fingerprints(C)
        IN /\ \A k \in 1..Len(J) : ~(J[k][1] = None /\ J[k][2] = None)
           /\ \A k \in 1..Len(J) :
                 (J[k][1] # None /\ J[k][2] # None) =>
                     J[k][1].history_fingerprint = J[k][2].history_fingerprint
           /\ \A f \in F :
                 LET idx == {k \in 1..Len(J) : PairFing(J[k]) = f}
                     bs == MembersOrAbsent(B, f)
                     cs == MembersOrAbsent(C, f)
                 IN /\ {J[k] : k \in idx} = {<<b, c>> : b \in bs, c \in cs}
                    /\ Cardinality(idx) = Cardinality(bs) * Cardinality(cs)
           /\ \A i \in 1..Len(B) : \E k \in 1..Len(J) : J[k][1] = B[i]
           /\ \A i \in 1..Len(C) : \E k \in 1..Len(J) : J[k][2] = C[i]
           /\ Fingerprints(B) \cap Fingerprints(C) = {} =>
                 /\ Len(J) = Len(B) + Len(C)
                 /\ \A k \in 1..Len(J) : J[k][1] = None \/ J[k][2] = None

\* C14 witness: fingerprint f1 with two results on each side gives four
\* pairs, and a contender of fingerprint f2 a fifth with an absent baseline.
C14_Witness ==
    /\ Joined
    /\ Len(call.baseline_results) = 2
    /\ Fingerprints(call.baseline_results) = {"f1"}
    /\ Len(call.contender_results) = 3
    /\ Cardinality({i \in 1..3 :
            call.contender_results[i].history_fingerprint = "f1"}) = 2
    /\ Len(call.joined) = 5
    /\ Cardinality({k \in 1..5 : call.joined[k][1] = None}) = 1

----------------------------------------------------------------------------
(* Claims about _parse_two_ids_or_abort, checked under SpecParse *)

Parsed == call # None /\ call.op = "parse" /\ call.result # None

\* "..." starts at position i of the token
DotsAt(i) ==
    /\ i >= 1 /\ i + 2 <= Len(call.compare_ids)
    /\ \A j \in i..(i + 2) : call.compare_ids[j] = "."

\* the token has no separator, or nothing before its first separator, or
\* nothing after it
Malformed ==
    \/ ~\E i \in 1..Len(call.compare_ids) : DotsAt(i)
    \/ DotsAt(1)
    \/ \E i \in 1..Len(call.compare_ids) :
          /\ DotsAt(i) /\ \A j \in 1..(i - 1) : ~DotsAt(j)
          /\ i + 2 = Len(call.compare_ids)

\* C15: parse fails with the not-found error whenever the token has no
\* "..." separator, or the part before the first separator is empty, or the
\* part after it is empty, and succeeds for every other token.
C15_ParseFails ==
    Parsed =>
        IF Malformed
        THEN ~call.result.ok /\ call.result.status = 404
        ELSE /\ call.result.ok
             /\ call.result.baseline_id # <<>>
             /\ call.result.contender_id # <<>>

\* C15 witness: "a..." is rejected for its empty contender id.
C15_Witness ==
    /\ Parsed
    /\ call.compare_ids = <<"a">> \o Sep
    /\ ~call.result.ok
    /\ call.result.status = 404
    /\ call.result.description = "empty contender ID"

\* what parse returns: the left never contains "...", and left + "..." +
\* right is the token
SplitsAtFirst ==
    call.result.ok =>
        /\ ~ContainsSep(call.result.baseline_id)
        /\ call.result.baseline_id \o Sep \o call.result.contender_id
              = call.compare_ids

\* the token is left + "..." + right for a left of n characters, and parse
\* returned (left, right)
ReturnsSplitAt(n) ==
    /\ call.result.ok
    /\ call.result.baseline_id = SubSeq(call.compare_ids, 1, n)
    /\ call.result.contender_id =
          SubSeq(call.compare_ids, n + 4, Len(call.compare_ids))

\* the token is left + "..." + right for a non-empty left of n characters
\* that does not contain "..." and a non-empty right
ComposedAt(n) ==
    /\ n >= 1 /\ n + 4 <= Len(call.compare_ids)
    /\ DotsAt(n + 1)
    /\ ~ContainsSep(SubSeq(call.compare_ids, 1, n))

\* C20 as stated: parse splits at the first "..."; for every non-empty left
\* that does not contain "..." and every non-empty right,
\* parse(left + "..." + right) returns (left, right).
C20_AsStated ==
    Parsed =>
        /\ SplitsAtFirst
        /\ \A n \in 1..Len(call.compare_ids) :
              ComposedAt(n) => ReturnsSplitAt(n)

\* C20 amended: parse splits at the first "..."; for every non-empty left
\* that does not contain "..." and does not end with ".", and every
\* non-empty right, parse(left + "..." + right) returns (left, right).
C20_SplitAtFirst ==
    Parsed =>
        /\ SplitsAtFirst
        /\ \A n \in 1..Len(call.compare_ids) :
              (ComposedAt(n) /\ call.compare_ids[n] # ".") => ReturnsSplitAt(n)

\* C20 witness: "a...a...a" gives ("a", "a...a").
C20_Witness ==
    /\ Parsed
    /\ call.compare_ids = <<"a">> \o Sep \o <<"a">> \o Sep \o <<"a">>
    /\ call.result.ok
    /\ call.result.baseline_id = <<"a">>
    /\ call.result.contender_id = <<"a">> \o Sep \o <<"a">>

----------------------------------------------------------------------------
(* The order of the steps of a compare request, checked under SpecApi *)

IsPrefix(a, b) == Len(a) <= Len(b) /\ SubSeq(b, 1, Len(a)) = a

\* the steps of _get in their order, with and without the annotation
StepOrders ==
    { <<"parse", "thresholds", "fetch_baseline", "fetch_contender",
        "annotate", "construct">>,
      <<"parse", "thresholds", "fetch_baseline", "fetch_contender",
        "construct">> }

Did(step) == \E i \in 1..Len(call.resp.work) : call.resp.work[i] = step

\* the token names a result (or run) the store does not hold
UnknownId ==
    LET ids == parse_two_ids_or_abort(call.compare_ids)
        known(id) == IF call.endpoint = "CompareBenchmarkResultsAPI"
                     THEN BenchmarkResult_get(rows, id) # None
                     ELSE ResultsOfRun(rows, id) # <<>>
    IN ~known(ids.baseline_id) \/ ~known(ids.contender_id)

\* C17: the steps run in the order gate, token parsing, fetch of baseline
\* then contender, annotation, construction, each only if the earlier ones
\* succeeded: a malformed token at a saturated gate gives retry-later, a
\* malformed token gives not-found without a store fetch, and an unknown id
\* or empty run gives not-found before any annotation or unit check.
C17_StepOrder ==
    ApiAnswered =>
        IF ~call.acquired
        THEN call.resp.status = 429 /\ call.resp.work = <<>>
        ELSE /\ \E steps \in StepOrders : IsPrefix(call.resp.work, steps)
             /\ Did("parse")
             /\ Malformed =>
                   call.resp.status = 404 /\ call.resp.work = <<"parse">>
             /\ (/\ ~Malformed
                 /\ call.threshold_arg # NotAFloat
                 /\ call.fault # "store_baseline"
                 /\ UnknownId) =>
                   /\ call.resp.status = 404
                   /\ Did("fetch_baseline")
                   /\ ~Did("annotate") /\ ~Did("construct")
             /\ call.resp.status = 404 => ~Did("annotate") /\ ~Did("construct")
             /\ call.resp.status \in {200, 400} => Did("construct")

\* C17 witness: a token without separator arrives while the gate is
\* saturated and is answered retry-later.
C17_Witness ==
    /\ ApiAnswered
    /\ call.compare_ids = Id("0", "1") \o Id("0", "2")
    /\ ~call.acquired
    /\ call.resp.status = 429

----------------------------------------------------------------------------
(* Unit mismatch at construction, seen through both endpoints (SpecApi) *)

\* the response holds a record for the pair
Kept(pr) ==
    \E i \in 1..Len(Records) :
        /\ RowOf(Records[i].baseline) = pr[1]
        /\ RowOf(Records[i].contender) = pr[2]

----------------------------------------------------------------------------
(* The legacy lower bound of the listing, checked under SpecList *)

\* the request carries a run_id filter
RunIdFilter == Given(listing.args.run_id)

\* a record written before the migration to time-ordered ids
PreMigration(r) == r.timestamp < LegacyCutoff

\* the filters other than run_id and the legacy bound admit the row
OtherFiltersAdmit(r) ==
    /\ Given(listing.args.earliest_timestamp) =>
          r.timestamp >= listing.args.earliest_timestamp.t
    /\ Given(listing.args.latest_timestamp) =>
          r.timestamp <= listing.args.latest_timestamp.t
    /\ Given(listing.args.run_reason) =>
          r.run_reason = listing.args.run_reason.s
    /\ (Given(listing.args.cursor) /\ listing.args.cursor.s # NullText) =>
          StrLt(r.id, listing.args.cursor.s)

\* what a page may hold according to the filters of its request
Admitted(r) ==
    /\ OtherFiltersAdmit(r)
    /\ IF RunIdFilter THEN r.run_id = listing.args.run_id.s
       ELSE ~PreMigration(r)

PageRows == {listing.resp.data[i] : i \in 1..Len(listing.resp.data)}

\* C19: the legacy lower bound on timestamps is applied exactly when the
\* request has no run_id filter; with a run_id, records of that run from
\* before the migration are returned; the cursor and the other filters
\* apply in both cases.  A page holds the admitted rows of greatest id.
C19_LegacyBound ==
    Page200 =>
        /\ \A r \in PageRows : Admitted(r)
        /\ \A i \in 1..Len(rows) :
              (Admitted(rows[i]) /\ rows[i] \notin PageRows) =>
                  /\ Len(listing.resp.data) = listing.resp.page_size
                  /\ \A r \in PageRows : StrLt(rows[i].id, r.id)

\* C19 witness: a request with a run_id and a cursor whose page holds a
\* record of that run from before the migration.
C19_Witness ==
    /\ Page200
    /\ RunIdFilter
    /\ Given(listing.args.cursor) /\ listing.args.cursor.s # NullText
    /\ \E r \in PageRows : PreMigration(r) /\ r.run_id = listing.args.run_id.s

----------------------------------------------------------------------------
(* The listing next to the gate, checked under Spec *)

\* thread t is serving a list request
Listing(t) == req[t] # None /\ req[t].endpoint = "BenchmarkListAPI"

\* thread t takes a step of a list request
ListStep(t) ==
    /\ pc'[t] # pc[t]
    /\ \/ Listing(t)
       \/ req'[t] # None /\ req'[t].endpoint = "BenchmarkListAPI"

\* C16: list_results is independent of the compare gate: a list request
\* never acquires or releases the slot and never waits for it, it never
\* answers retry-later, and it can complete whatever the state of the gate,
\* also while a compare request holds the slot.
C16_ListIndependent ==
    /\ [](\A t \in Threads :
            Listing(t) =>
                /\ ~acquired[t] /\ releases[t] = 0
                /\ pc[t] \in {"body", "done"}
                /\ pc[t] = "body" => ENABLED Body(t)
                /\ pc[t] = "done" => (resp[t].status \in {200, 400}
                                         /\ work[t] = <<>>))
    /\ [][\A t \in Threads :
            ListStep(t) => UNCHANGED <<sem, acquired, releases, wait, freed>>]_vars

\* C16 witness: a list request has been answered with a page while a
\* compare request holds the slot.
C16_Witness ==
    \E t, u \in Threads :
        /\ Listing(t) /\ pc[t] = "done" /\ resp[t].status = 200
        /\ Holding(u) /\ sem = 0

----------------------------------------------------------------------------
(* A cursor traversal next to writers: results are posted and deleted while *)
(* a client pages through the listing                                       *)

\* requests of the paging client: no cursor, with and without a run_id
StreamArgs ==
    [run_id : {None, Str(Id("0", "1"))},
     earliest_timestamp : {None},
     latest_timestamp : {None},
     run_reason : {None},
     cursor : {None},
     page_size : {None, Str(<<"1">>), Str(<<"2">>)}]

\* the table the traversal starts on: a result of run 01 from before the
\* migration, then one of run 02 and one of run 01
StreamRows == TableOf(<<RowKind(1), RowKind(3), RowKind(2)>>)

\* the results the writers post: one of run 01, one of run 02
PostKinds == {RowKind(2), RowKind(3)}

\* the writers' bookkeeping: how many results were ever inserted and how
\* many were posted and deleted since; which ids were posted after the
\* client received its first page
StreamStart(table) ==
    [op |-> "stream", inserted |-> Len(table), appended |-> 0, deleted |-> 0,
     late |-> {}]

Streaming == call # None /\ call.op = "stream"

\* the client has received its first page
FirstPageFetched == trav # <<>>

\* the id BenchmarkResult.create gives a new result: time-ordered, so
\* greater than every id handed out before
NextResultId(inserted) == NewId(inserted + 1)

\* BenchmarkListAPI.post: BenchmarkResult.create(data) inserts one result
Post ==
    /\ Streaming
    /\ call.appended < MaxAppends
    /\ \E kind \in PostKinds :
          LET id == NextResultId(call.inserted)
              r == BenchmarkResult(id, kind.run_id, kind.timestamp,
                                   kind.run_reason, Unit("s"), FALSE, FNum(1),
                                   None, "f1", Commit)
          IN /\ rows' = Append(rows, r)
             /\ call' = [call EXCEPT
                            !.inserted = @ + 1,
                            !.appended = @ + 1,
                            !.late = IF FirstPageFetched THEN @ \cup {id}
                                     ELSE @]
    /\ UNCHANGED <<gateVars, cmp, listing, trav>>

\* BenchmarkEntityAPI.delete of a stored result (an unknown id is answered
\* 404 and leaves the table as it is)
Delete ==
    /\ Streaming
    /\ call.deleted < MaxDeletes
    /\ \E i \in 1..Len(rows) :
          /\ BenchmarkResult_get(rows, rows[i].id) # None
          /\ rows' = SelectSeq(rows, LAMBDA r : r.id # rows[i].id)
    /\ call' = [call EXCEPT !.deleted = @ + 1]
    /\ UNCHANGED <<gateVars, cmp, listing, trav>>

InitStream ==
    /\ GateInit
    /\ CmpInit
    /\ rows = StreamRows
    /\ listing \in {[args |-> a, first |-> a.cursor, resp |-> None] :
                      a \in StreamArgs}
    /\ trav = <<>>
    /\ call = StreamStart(rows)

NextStream == ListGet \/ FollowCursor \/ Post \/ Delete

\* the client keeps asking: its request is handled, and it follows every
\* cursor it is given
SpecStream ==
    /\ InitStream
    /\ [][NextStream]_vars
    /\ WF_vars(ListGet)
    /\ WF_vars(FollowCursor)

----------------------------------------------------------------------------
(* Claims about a traversal next to writers, checked under SpecStream *)

\* the rows the client has received, in the order received
Got == Flatten(trav)

GotIds == {Got[i].id : i \in 1..Len(Got)}

\* the last page received carried a null next_page_cursor
StreamEnded == Streaming /\ Page200 /\ listing.resp.next_page_cursor = None

\* the stored rows matching the client's filters that were there when the
\* first page was fetched
ExistedAtFirstPage ==
    {r \in AllMatching : r.id \notin call.late}

\* what holds of the rows received so far
ConsistentSoFar ==
    Streaming =>
        /\ \A i, j \in 1..Len(Got) : i < j => StrLt(Got[j].id, Got[i].id)
        /\ Cardinality(GotIds) = Len(Got)
        /\ \A i \in 2..Len(trav) : \A k \in 1..Len(trav[i]) :
              trav[i][k].id \notin call.late
        /\ GotIds \cap call.late = {}
        /\ StreamEnded => \A r \in ExistedAtFirstPage : r.id \in GotIds

\* C21: while results with ids greater than all existing ones are posted
\* (and results are deleted) next to a cursor traversal, no row is returned
\* on more than one page, ids decrease strictly across the traversal, rows
\* posted after the first page was fetched appear on no page, every matching
\* row that was there at the first page and is not deleted has been
\* returned once the traversal ends, and the traversal does end with a null
\* next_page_cursor.
C21_ConsistentTraversal ==
    /\ []ConsistentSoFar
    /\ <>StreamEnded

\* C21 witness: a traversal of two pages has ended; in between a matching
\* result was posted and a result was deleted; the posted one is on no page.
C21_Witness ==
    /\ StreamEnded
    /\ Len(trav) >= 2 /\ trav[2] # <<>>
    /\ call.deleted = 1
    /\ \E r \in AllMatching : r.id \in call.late /\ r.id \notin GotIds

====
